---- MODULE Spec2Model ----
(***************************************************************************)
(* Model of alglib::Vector<T> (Include/vector.h): the heap buffer, size    *)
(* and capacity, every public operation, and the four iterator kinds.      *)
(* Buffer slots are indexed from 0 as in the source.  A slot that was      *)
(* allocated but never written, or memory outside the buffer, holds an     *)
(* indeterminate value (Indet); reading it yields any element value.       *)
(*                                                                         *)
(* The other containers, alglib::ArrayStack<T, capacity>                   *)
(* (Include/array_stack.h), alglib::CircularQueue<T, capacity>             *)
(* (Include/circular_queue.h) and alglib::SLLQueue<T> (Include/sll_queue.h)*)
(* each have one variable holding the object's fields, and so have         *)
(* alglib::SLLStack<T> (Include/sll_stack.h), alglib::SinglyLinkedList<T>  *)
(* (Include/singly_linked_list.h) and alglib::DoublyLinkedList<T>          *)
(* (Include/doubly_linked_list.h).  A specification runs one container;    *)
(* the others stay as they are.                                            *)
(***************************************************************************)
EXTENDS Integers, Sequences, FiniteSets, TLC

\* ---------------------------------------------------------------- bounds
MaxSize == 3       \* Push/Insert are exercised while size < MaxSize
MaxCount == 3      \* largest element count given to Vector(n) / Vector(n, v)
MaxLen == 3        \* longest literal sequence
MaxResize == 3     \* largest argument given to Resize
MaxPushes == 9     \* longest run of Push calls followed in SpecGrowth
MaxOverrun == 2    \* how far past the buffer a runaway iterator is followed
SizeBits == 6      \* width of size_t in the model
MaxStackCapacity == 3  \* largest capacity argument of ArrayStack
MaxRejected == 2   \* how many Push calls on a full ArrayStack are followed
MaxQueueCapacity == 3  \* largest capacity argument of CircularQueue
MaxNodes == 2      \* addresses the allocator hands out to SLLQueue nodes
MaxListNodes == 3  \* addresses the allocator hands out to the nodes of an
                   \* SLLStack, a SinglyLinkedList or a DoublyLinkedList

SizeMod == 2 ^ SizeBits
SIZE_MAX == SizeMod - 1

Val == {1, 2}
Indet == 0         \* an uninitialised or out-of-buffer slot
NoVal == -1        \* "no value": void return, unused parameter
DefaultCapacity == 4
ValueInit == 0     \* T(): the value of a value-initialised array element
Null == 0          \* nullptr; the addresses of nodes are 1 .. MaxNodes

VARIABLES
  data,       \* the heap buffer: a function on 0 .. capacity-1
  size,       \* Vector::size
  capacity,   \* Vector::capacity
  last,       \* the last call: operation, arguments, result, error
  fx,         \* the last call's effects on memory: oob = it wrote outside the
              \* buffer, moved = it replaced the buffer by a fresh one
  it,         \* the iterator loop in progress (or finished)
  rt          \* the current run of Push calls followed by Pop calls

VARIABLES
  stack,      \* ArrayStack: capacity (template argument), data, topIndex
  cqueue,     \* CircularQueue: capacity (template argument), queue, front,
              \* size
  sll,        \* SLLQueue: front, rear, and the heap of Node objects
  sstack,     \* SLLStack: top, and the heap of Node objects
  slist,      \* SinglyLinkedList: head_, and the heap of Node objects
  dlist,      \* DoublyLinkedList: head_, tail_, and the heap of Node objects
  shadow      \* the values a stack or queue should hold, oldest first: those
              \* inserted by calls that returned normally and not yet
              \* returned by a removal; lost = a removal returned normally
              \* when there was nothing left to return

vars ==
  <<data, size, capacity, last, fx, it, rt, stack, cqueue, sll, shadow,
    sstack, slist, dlist>>
vec == <<data, size, capacity>>
linked == <<sstack, slist, dlist>>
others == <<stack, cqueue, sll, shadow, linked>>

\* ------------------------------------------------------- memory accesses
\* data[i] as an rvalue: a slot outside the buffer is indeterminate
Read(d, c, i) == IF 0 <= i /\ i < c THEN d[i] ELSE Indet

\* data[i] = v: a write outside the buffer does not land in the buffer
Write(d, c, i, v) == IF 0 <= i /\ i < c THEN [d EXCEPT ![i] = v] ELSE d

\* the values a read of slot content x can produce
ReadVals(x) == IF x = Indet THEN Val ELSE {x}


\* ------------------------------------------------------------ Reallocate
TruncateKeepsSize(amount, s) == s
Truncate(amount, s) == IF amount < s THEN amount ELSE s

ReallocateDropsLast(d, s, c, amount) ==
  LET ns == Truncate(amount, s)
  IN  [data     |-> [i \in 0 .. (amount - 1) |->
                       IF i < ns - 1 THEN Read(d, c, i) ELSE Indet],
       size     |-> ns,
       capacity |-> amount]

Reallocate(d, s, c, amount) ==
  LET ns == Truncate(amount, s)
  IN  [data     |-> [i \in 0 .. (amount - 1) |->
                       IF i < ns THEN Read(d, c, i) ELSE Indet],
       size     |-> ns,
       capacity |-> amount]

Same(d, s, c) == [data |-> d, size |-> s, capacity |-> c]

\* ---------------------------------------------------------- constructors
Call(op, v, idx, ret, err) ==
  [op |-> op, v |-> v, idx |-> idx, ret |-> ret, err |-> err]

Fx(o, m) == [oob |-> o, moved |-> m]

Shadow(vals, lost) == [vals |-> vals, lost |-> lost]

\* the containers a specification does not run
None ==
  [stack |-> [capacity |-> 0, data |-> <<>>, topIndex |-> -1],
   cqueue |-> [capacity |-> 0, queue |-> <<>>, front |-> 0, size |-> 0],
   sll |-> [front |-> 0, rear |-> 0, heap |-> <<>>],
   shadow |-> Shadow(<<>>, FALSE),
   sstack |-> [top |-> 0, heap |-> <<>>],
   slist |-> [head_ |-> 0, heap |-> <<>>],
   dlist |-> [head_ |-> 0, tail_ |-> 0, heap |-> <<>>]]

NoIter == [kind |-> "none", pos |-> 0, out |-> <<>>, visited |-> <<>>,
           st |-> "none"]

\* a run of n Push calls followed by k Pop calls that started with size s and
\* capacity c; origin names the constructor when the run started right after
\* construction; pc counts the Pop calls made in a row, the first of them on
\* a vector of size pb
Run(s, c, n, k, origin) ==
  [base |-> s, cap0 |-> c, n |-> n, k |-> k, origin |-> origin,
   pb |-> 0, pc |-> 0]

NoRun == Run(0, 0, 0, 0, "none")

Lists == UNION {[1 .. n -> Val] : n \in 0 .. MaxLen}

CtorFillSetsSize(n, v) ==
  [data |-> [i \in 0 .. (n - 1) |-> v], size |-> n, capacity |-> n]

\* Vector(size_t elements, const T& value)
CtorFill(n, v) ==
  LET r == Reallocate(<<>>, 0, 0, n)
  IN  [r EXCEPT !.data = [i \in 0 .. (r.capacity - 1) |-> v]]

CtorListReversed(l) ==
  [data |-> [i \in 0 .. (Len(l) - 1) |-> l[Len(l) - i]],
   size |-> Len(l), capacity |-> Len(l)]

\* Vector(std::initializer_list<T> list)
CtorList(l) ==
  [data |-> [i \in 0 .. (Len(l) - 1) |-> l[i + 1]],
   size |-> Len(l), capacity |-> Len(l)]

\* the state after construction; the call record keeps the arguments
Built(r, name, v, idx) ==
  /\ data = r.data
  /\ size = r.size
  /\ capacity = r.capacity
  /\ last = Call(name, v, idx, NoVal, "none")
  /\ fx = Fx(FALSE, TRUE)
  /\ it = NoIter
  /\ rt = Run(r.size, r.capacity, 0, 0, name)
  /\ stack = None.stack
  /\ cqueue = None.cqueue
  /\ sll = None.sll
  /\ shadow = None.shadow
  /\ sstack = None.sstack
  /\ slist = None.slist
  /\ dlist = None.dlist

Init ==
  \/ Built(Reallocate(<<>>, 0, 0, DefaultCapacity), "Vector()", NoVal, NoVal)
  \/ \E n \in 0 .. MaxCount :
       Built(Reallocate(<<>>, 0, 0, n), "Vector(n)", NoVal, n)
  \/ \E n \in 0 .. MaxCount : \E v \in Val :
       Built(CtorFill(n, v), "Vector(n,v)", v, n)
  \/ \E l \in Lists : Built(CtorList(l), "Vector(list)", l, Len(l))

\* ------------------------------------------------------------------ Push
PushTargetGrowsByOne(c) == (c + 1) % SizeMod
PushTarget(c) == (c * 2) % SizeMod

PushNeedsRoomEarly(s, c) == s + 1 >= c
\* if (size >= capacity)
PushNeedsRoom(s, c) == s >= c

PushResult(d, s, c, v) ==
  LET r == IF PushNeedsRoom(s, c) THEN Reallocate(d, s, c, PushTarget(c))
                                  ELSE Same(d, s, c)
  IN  [data     |-> Write(r.data, r.capacity, r.size, v),
       size     |-> (r.size + 1) % SizeMod,
       capacity |-> r.capacity,
       oob      |-> ~(r.size < r.capacity),
       moved    |-> PushNeedsRoom(s, c)]

Push(v) ==
  /\ it.st # "running"
  /\ LET r == PushResult(data, size, capacity, v)
     IN  /\ data' = r.data
         /\ size' = r.size
         /\ capacity' = r.capacity
         /\ fx' = Fx(r.oob, r.moved)
  /\ last' = Call("Push", v, NoVal, NoVal, "none")
  /\ it' = NoIter

\* ---------------------------------------------------------------- Insert
InsertThrows(index, s) == index > s

InsertNeedsRoomLate(s, c) == s > c
\* if (size + 1 > capacity)
InsertNeedsRoom(s, c) == (s + 1) % SizeMod > c

InsertTarget(c) == IF c = 0 THEN 1 ELSE (c * 2) % SizeMod

RECURSIVE ShiftRightStopsEarly(_, _, _, _)
ShiftRightStopsEarly(d, c, i, index) ==
  IF i > index + 1
    THEN ShiftRightStopsEarly(Write(d, c, i, Read(d, c, i - 1)), c, i - 1,
                              index)
    ELSE d

\* for (size_t i{size}; i > index; --i) data[i] = data[i - 1];
RECURSIVE ShiftRight(_, _, _, _)
ShiftRight(d, c, i, index) ==
  IF i > index
    THEN ShiftRight(Write(d, c, i, Read(d, c, i - 1)), c, i - 1, index)
    ELSE d

InsertResult(d, s, c, v, index) ==
  LET r == IF InsertNeedsRoom(s, c)
             THEN Reallocate(d, s, c, InsertTarget(c))
             ELSE Same(d, s, c)
      shifted == ShiftRight(r.data, r.capacity, r.size, index)
  IN  [data     |-> Write(shifted, r.capacity, index, v),
       size     |-> (r.size + 1) % SizeMod,
       capacity |-> r.capacity,
       oob      |-> \/ ~(index < r.capacity)
                    \/ (r.size > index /\ ~(r.size < r.capacity)),
       moved    |-> InsertNeedsRoom(s, c)]

Insert(v, index) ==
  /\ it.st # "running"
  /\ IF InsertThrows(index, size)
       THEN /\ UNCHANGED vec
            /\ fx' = Fx(FALSE, FALSE)
            /\ last' = Call("Insert", v, index, NoVal, "IndexOutOfRange")
       ELSE /\ LET r == InsertResult(data, size, capacity, v, index)
               IN  /\ data' = r.data
                   /\ size' = r.size
                   /\ capacity' = r.capacity
                   /\ fx' = Fx(r.oob, r.moved)
            /\ last' = Call("Insert", v, index, NoVal, "none")
  /\ it' = NoIter

\* ------------------------------------------------------------------- Pop
\* T Vector<T>::Pop() { return data[size--]; }
PopIndex(s) == s
PopSizeKept(s) == s
PopSize(s) == (s - 1) % SizeMod

Pop ==
  /\ it.st # "running"
  /\ \E r \in ReadVals(Read(data, capacity, PopIndex(size))) :
       last' = Call("Pop", NoVal, NoVal, r, "none")
  /\ size' = PopSize(size)
  /\ UNCHANGED <<data, capacity>>
  /\ fx' = Fx(FALSE, FALSE)
  /\ it' = NoIter

\* -------------------------------------------------------------------- At
AtThrowsPastEnd(index, s) == index > s
AtThrows(index, s) == index >= s

\* both overloads (T& and const T&) have the same body
At(index) ==
  /\ it.st # "running"
  /\ IF AtThrows(index, size)
       THEN last' = Call("At", NoVal, index, NoVal, "IndexOutOfRange")
       ELSE \E r \in ReadVals(Read(data, capacity, index)) :
              last' = Call("At", NoVal, index, r, "none")
  /\ UNCHANGED vec
  /\ fx' = Fx(FALSE, FALSE)
  /\ it' = NoIter

\* ---------------------------------------------------- Resize, ShrinkToFit
Resize(n) ==
  /\ it.st # "running"
  /\ LET r == Reallocate(data, size, capacity, n)
     IN  /\ data' = r.data
         /\ size' = r.size
         /\ capacity' = r.capacity
  /\ fx' = Fx(FALSE, TRUE)
  /\ last' = Call("Resize", NoVal, n, NoVal, "none")
  /\ it' = NoIter

ShrinkToFit ==
  /\ it.st # "running"
  /\ LET r == Reallocate(data, size, capacity, size)
     IN  /\ data' = r.data
         /\ size' = r.size
         /\ capacity' = r.capacity
  /\ fx' = Fx(FALSE, TRUE)
  /\ last' = Call("ShrinkToFit", NoVal, NoVal, NoVal, "none")
  /\ it' = NoIter

\* ------------------------------------------- operator=(initializer_list)
AssignResultExact(d, c, l) ==
  [data |-> [i \in 0 .. (Len(l) - 1) |-> l[i + 1]], size |-> Len(l),
   capacity |-> Len(l)]

AssignResult(d, c, l) ==
  LET grow == Len(l) > c
      c0 == IF grow THEN Len(l) ELSE c
      d0 == IF grow THEN [i \in 0 .. (Len(l) - 1) |-> Indet] ELSE d
  IN  [data     |-> [i \in 0 .. (c0 - 1) |->
                       IF i < Len(l) THEN l[i + 1] ELSE d0[i]],
       size     |-> Len(l),
       capacity |-> c0]

Assign(l) ==
  /\ it.st # "running"
  /\ LET r == AssignResult(data, capacity, l)
     IN  /\ data' = r.data
         /\ size' = r.size
         /\ capacity' = r.capacity
  /\ fx' = Fx(FALSE, Len(l) > capacity)
  /\ last' = Call("Assign", l, Len(l), NoVal, "none")
  /\ it' = NoIter

\* ----------------------------------------------------------- Front, Back
\* Front() reads data[0], Back() reads data[size - 1]
Front ==
  /\ it.st # "running"
  /\ \E r \in ReadVals(Read(data, capacity, 0)) :
       last' = Call("Front", NoVal, NoVal, r, "none")
  /\ UNCHANGED vec
  /\ fx' = Fx(FALSE, FALSE)
  /\ it' = NoIter

Back ==
  /\ it.st # "running"
  /\ \E r \in ReadVals(Read(data, capacity, (size - 1) % SizeMod)) :
       last' = Call("Back", NoVal, NoVal, r, "none")
  /\ UNCHANGED vec
  /\ fx' = Fx(FALSE, FALSE)
  /\ it' = NoIter

\* ------------------------------------------------------------- iterators
\* An iterator holds a pointer into the buffer; it is modelled by the offset
\* of that pointer from data.  data + size is pointer arithmetic on a size_t.
Offset(s) == IF s >= SizeMod \div 2 THEN s - SizeMod ELSE s


\* begin(), cbegin(), rbegin(), crbegin()
BeginPos(kind, s) ==
  CASE kind = "fwd"      -> 0
    [] kind = "const"    -> 0
    [] kind = "rev"      -> Offset(s) - 1
    [] kind = "constrev" -> Offset(s) - 1

EndPosConstAtLast(kind, s) ==
  CASE kind = "fwd"      -> Offset(s) - 1
    [] kind = "const"    -> Offset(s) - 1
    [] kind = "rev"      -> -1
    [] kind = "constrev" -> -1

\* end(), cend(), rend(), crend()
EndPos(kind, s) ==
  CASE kind = "fwd"      -> Offset(s) - 1
    [] kind = "const"    -> Offset(s)
    [] kind = "rev"      -> -1
    [] kind = "constrev" -> -1

AdvanceAlwaysForward(kind, pos) == pos + 1

\* operator++ of the four iterator classes
Advance(kind, pos) ==
  CASE kind = "fwd"      -> pos + 1
    [] kind = "const"    -> pos + 1
    [] kind = "rev"      -> pos - 1
    [] kind = "constrev" -> pos - 1

\* operator!=
NotEqual(p, q) == p # q

\* auto i = v.Begin()
IterBegin(kind) ==
  /\ it.st # "running"
  /\ it' = [kind |-> kind, pos |-> BeginPos(kind, size), out |-> <<>>,
            visited |-> <<>>, st |-> "running"]
  /\ last' = Call("Iterate", NoVal, NoVal, NoVal, "none")
  /\ fx' = Fx(FALSE, FALSE)
  /\ UNCHANGED vec

\* i != v.End() holds: the loop body dereferences i, then i++
IterDeref ==
  /\ it.st = "running"
  /\ NotEqual(it.pos, EndPos(it.kind, size))
  /\ -1 - MaxOverrun <= it.pos /\ it.pos < capacity + MaxOverrun
  /\ \E r \in ReadVals(Read(data, capacity, it.pos)) :
       it' = [it EXCEPT !.out = Append(@, r),
                        !.visited = Append(@, it.pos),
                        !.pos = Advance(it.kind, it.pos)]
  /\ UNCHANGED <<vec, last, fx>>

\* i != v.End() fails: the loop is left
IterDone ==
  /\ it.st = "running"
  /\ ~NotEqual(it.pos, EndPos(it.kind, size))
  /\ it' = [it EXCEPT !.st = "done"]
  /\ UNCHANGED <<vec, last, fx>>

\* ------------------------------------------------------- specifications
Indexes == (0 .. (MaxSize + 1)) \cup {SIZE_MAX}

\* Spec: every operation, called in any order; Pop only on a non-empty vector.
\* At leaves rt alone, so that rt.origin names the constructor for as long as
\* nothing but At has been called since construction.
Next ==
  \/ \E v \in Val : size < MaxSize /\ Push(v) /\ rt' = NoRun /\ UNCHANGED others
  \/ \E v \in Val : \E i \in Indexes :
       size < MaxSize /\ Insert(v, i) /\ rt' = NoRun /\ UNCHANGED others
  \/ size > 0 /\ Pop /\ rt' = NoRun /\ UNCHANGED others
  \/ \E i \in Indexes : At(i) /\ UNCHANGED rt /\ UNCHANGED others
  \/ \E n \in 0 .. MaxResize : Resize(n) /\ rt' = NoRun /\ UNCHANGED others
  \/ ShrinkToFit /\ rt' = NoRun /\ UNCHANGED others
  \/ \E l \in Lists : Assign(l) /\ rt' = NoRun /\ UNCHANGED others
  \/ size > 0 /\ Front /\ rt' = NoRun /\ UNCHANGED others
  \/ size > 0 /\ Back /\ rt' = NoRun /\ UNCHANGED others
  \/ \E k \in {"fwd", "const", "rev", "constrev"} : IterBegin(k) /\ rt' = NoRun /\ UNCHANGED others
  \/ IterDeref /\ UNCHANGED rt /\ UNCHANGED others
  \/ IterDone /\ UNCHANGED rt /\ UNCHANGED others

Spec == Init /\ [][Next]_vars

\* the run of Push calls followed by Pop calls, and the streak of Pop calls
RunPush(r, s, c) ==
  IF r.k = 0 THEN [r EXCEPT !.n = @ + 1, !.pb = 0, !.pc = 0]
             ELSE [Run(s, c, 1, 0, "none") EXCEPT !.pb = 0, !.pc = 0]

RunPop(r, s, s2, c2) ==
  LET streak == IF r.pc > 0 THEN [pb |-> r.pb, pc |-> r.pc + 1]
                            ELSE [pb |-> s, pc |-> 1]
      q == IF r.k < r.n THEN [r EXCEPT !.k = @ + 1]
                        ELSE Run(s2, c2, 0, 0, "none")
  IN  [q EXCEPT !.pb = streak.pb, !.pc = streak.pc]

\* SpecGrowth: Push calls only, from every constructor
NextGrowth ==
  \E v \in Val : rt.n < MaxPushes /\ Push(v) /\ rt' = RunPush(rt, size, capacity) /\ UNCHANGED others

SpecGrowth == Init /\ [][NextGrowth]_vars

\* SpecPushPop: the operations that change the vector, with the run tracked
NextPushPop ==
  \/ \E v \in Val :
       /\ size < MaxSize /\ rt.n < MaxSize
       /\ Push(v) /\ rt' = RunPush(rt, size, capacity) /\ UNCHANGED others
  \/ size > 0 /\ Pop /\ rt' = RunPop(rt, size, size', capacity') /\ UNCHANGED others
  \/ \E v \in Val : \E i \in 0 .. MaxSize :
       /\ size < MaxSize /\ i <= size
       /\ Insert(v, i) /\ rt' = Run(size', capacity', 0, 0, "none") /\ UNCHANGED others
  \/ \E n \in 0 .. MaxResize :
       Resize(n) /\ rt' = Run(size', capacity', 0, 0, "none") /\ UNCHANGED others
  \/ ShrinkToFit /\ rt' = Run(size', capacity', 0, 0, "none") /\ UNCHANGED others
  \/ \E l \in Lists : Assign(l) /\ rt' = Run(size', capacity', 0, 0, "none") /\ UNCHANGED others

SpecPushPop == Init /\ [][NextPushPop]_vars

\* SpecPopEmpty: Push, Pop and At, with Pop also called on an empty vector
\* (Pop has no emptiness test); no further Pop once the size has wrapped
NextPopEmpty ==
  \/ \E v \in Val : size < MaxSize /\ Push(v) /\ rt' = NoRun /\ UNCHANGED others
  \/ size <= MaxSize /\ Pop /\ rt' = NoRun /\ UNCHANGED others
  \/ \E i \in Indexes : At(i) /\ UNCHANGED rt /\ UNCHANGED others

SpecPopEmpty == Init /\ [][NextPopEmpty]_vars


\* ============================================================ ArrayStack
\* the errors of constants.h, as the specification groups them
EmptyError == {"EmptyDeletion", "PeekAtEmpty", "ObjectEmpty"}
CapacityExceeded == {"ObjectFull"}

\* the Vector of a specification that runs another container
NoVector ==
  /\ data = <<>>
  /\ size = 0
  /\ capacity = 0
  /\ it = NoIter
  /\ rt = NoRun

vecIdle == <<data, size, capacity, it, rt>>

\* conversion of an int to size_t
ToSizeT(i) == i % SizeMod

\* what a removal that returned r with error err does to the shadow of a
\* stack (fromEnd) or of a queue
Removed(sh, err, fromEnd) ==
  IF err # "none" THEN sh
  ELSE IF sh.vals = <<>> THEN Shadow(<<>>, TRUE)
  ELSE IF fromEnd THEN Shadow(SubSeq(sh.vals, 1, Len(sh.vals) - 1), sh.lost)
  ELSE Shadow(Tail(sh.vals), sh.lost)

Inserted(sh, v, err) ==
  IF err # "none" THEN sh ELSE Shadow(Append(sh.vals, v), sh.lost)

\* ArrayStack(): topIndex(-1), data()
StackInit ==
  \E n \in 0 .. MaxStackCapacity :
    /\ stack = [capacity |-> n, data |-> [i \in 0 .. (n - 1) |-> ValueInit],
                topIndex |-> -1]
    /\ last = Call("ArrayStack()", NoVal, n, NoVal, "none")
    /\ fx = Fx(FALSE, FALSE)
    /\ NoVector
    /\ cqueue = None.cqueue
    /\ sll = None.sll
    /\ shadow = None.shadow
    /\ sstack = None.sstack
    /\ slist = None.slist
    /\ dlist = None.dlist

\* IsEmpty(), IsFull(), Size()
StackIsEmpty(st) == st.topIndex < 0
StackIsFull(st) == ToSizeT(st.topIndex) = ToSizeT(st.capacity - 1)
StackSize(st) == ToSizeT(st.topIndex + 1)

\* std::array::at(i)
AtThrowsOutOfRange(st, i) == ToSizeT(i) >= st.capacity

\* Push(T val): topIndex is incremented before the capacity test
StackPush(v) ==
  LET t == stack.topIndex + 1
      err == IF ToSizeT(t) >= stack.capacity THEN "ObjectFull" ELSE "none"
  IN  /\ stack' = IF err = "none"
                    THEN [stack EXCEPT !.topIndex = t, !.data[t] = v]
                    ELSE [stack EXCEPT !.topIndex = t]
      /\ last' = Call("ArrayStack::Push", v, NoVal, NoVal, err)
      /\ shadow' = Inserted(shadow, v, err)

\* Pop(): return data.at(topIndex--); the decrement precedes the call of at
StackPop ==
  IF stack.topIndex < 0
    THEN /\ last' = Call("ArrayStack::Pop", NoVal, NoVal, NoVal,
                         "EmptyDeletion")
         /\ UNCHANGED <<stack, shadow>>
    ELSE LET i == stack.topIndex
             err == IF AtThrowsOutOfRange(stack, i) THEN "out_of_range"
                                                    ELSE "none"
             r == IF err = "none" THEN stack.data[i] ELSE NoVal
         IN  /\ stack' = [stack EXCEPT !.topIndex = i - 1]
             /\ last' = Call("ArrayStack::Pop", NoVal, NoVal, r, err)
             /\ shadow' = Removed(shadow, err, TRUE)

\* Top() const
StackTop ==
  /\ UNCHANGED <<stack, shadow>>
  /\ IF StackIsEmpty(stack)
       THEN last' = Call("ArrayStack::Top", NoVal, NoVal, NoVal, "PeekAtEmpty")
       ELSE IF AtThrowsOutOfRange(stack, stack.topIndex)
         THEN last' = Call("ArrayStack::Top", NoVal, NoVal, NoVal,
                           "out_of_range")
         ELSE last' = Call("ArrayStack::Top", NoVal, NoVal,
                           stack.data[stack.topIndex], "none")

\* SpecStack: Push, Pop and Top in any order on a stack of any capacity
NextStack ==
  \/ \E v \in Val :
       /\ stack.topIndex < stack.capacity + MaxRejected - 1
       /\ StackPush(v) /\ UNCHANGED <<vecIdle, linked, fx, cqueue, sll>>
  \/ StackPop /\ UNCHANGED <<vecIdle, linked, fx, cqueue, sll>>
  \/ StackTop /\ UNCHANGED <<vecIdle, linked, fx, cqueue, sll>>

SpecStack == StackInit /\ [][NextStack]_vars

\* ========================================================= CircularQueue
\* CircularQueue(): front(0), size(0), queue()
CQInit ==
  \E n \in 1 .. MaxQueueCapacity :
    /\ cqueue = [capacity |-> n, queue |-> [i \in 0 .. (n - 1) |-> ValueInit],
                 front |-> 0, size |-> 0]
    /\ last = Call("CircularQueue()", NoVal, n, NoVal, "none")
    /\ fx = Fx(FALSE, FALSE)
    /\ NoVector
    /\ stack = None.stack
    /\ sll = None.sll
    /\ shadow = None.shadow
    /\ sstack = None.sstack
    /\ slist = None.slist
    /\ dlist = None.dlist

\* IsEmpty()
CQIsEmpty(q) == q.size = 0

CQIsFullPastEnd(q) == q.size = q.capacity + 1

\* IsFull()
CQIsFull(q) == q.size = q.capacity

CQRearNoWrap(q) == ToSizeT(q.front + q.size)

\* the slot Enqueue writes: (front + size) % capacity
CQRear(q) == ToSizeT(q.front + q.size) % q.capacity

CQLastPastRear(q) == ToSizeT(q.front + q.size) % q.capacity

\* the slot PeekRear reads: (front + size - 1) % capacity
CQLast(q) == ToSizeT(q.front + q.size - 1) % q.capacity

\* Dequeue()
CQDequeue ==
  IF CQIsEmpty(cqueue)
    THEN /\ last' = Call("CircularQueue::Dequeue", NoVal, NoVal, NoVal,
                         "EmptyDeletion")
         /\ UNCHANGED <<cqueue, shadow>>
    ELSE IF AtThrowsOutOfRange(cqueue, cqueue.front)
      THEN /\ last' = Call("CircularQueue::Dequeue", NoVal, NoVal, NoVal,
                           "out_of_range")
           /\ UNCHANGED <<cqueue, shadow>>
      ELSE /\ cqueue' = [cqueue EXCEPT
                           !.front = ToSizeT(@ + 1) % cqueue.capacity,
                           !.size = ToSizeT(@ - 1)]
           /\ last' = Call("CircularQueue::Dequeue", NoVal, NoVal,
                           cqueue.queue[cqueue.front], "none")
           /\ shadow' = Removed(shadow, "none", FALSE)

\* Enqueue(T value)
CQEnqueue(v) ==
  IF CQIsFull(cqueue)
    THEN /\ last' = Call("CircularQueue::Enqueue", v, NoVal, NoVal,
                         "ObjectFull")
         /\ UNCHANGED <<cqueue, shadow>>
    ELSE LET rear == CQRear(cqueue)
         IN  IF AtThrowsOutOfRange(cqueue, rear)
               THEN /\ last' = Call("CircularQueue::Enqueue", v, rear, NoVal,
                                    "out_of_range")
                    /\ UNCHANGED <<cqueue, shadow>>
               ELSE /\ cqueue' = [cqueue EXCEPT !.queue[rear] = v,
                                                !.size = ToSizeT(@ + 1)]
                    /\ last' = Call("CircularQueue::Enqueue", v, rear, NoVal,
                                    "none")
                    /\ shadow' = Inserted(shadow, v, "none")

\* PeekFront() const, PeekRear() const
CQPeek(name, slot) ==
  /\ UNCHANGED <<cqueue, shadow>>
  /\ IF CQIsEmpty(cqueue)
       THEN last' = Call(name, NoVal, NoVal, NoVal, "PeekAtEmpty")
       ELSE IF AtThrowsOutOfRange(cqueue, slot)
         THEN last' = Call(name, NoVal, NoVal, NoVal, "out_of_range")
         ELSE last' = Call(name, NoVal, NoVal, cqueue.queue[slot], "none")


\* SpecCQ: every operation of a CircularQueue of any capacity, in any order
NextCQ ==
  \/ \E v \in Val : CQEnqueue(v) /\ UNCHANGED <<vecIdle, linked, fx, stack, sll>>
  \/ CQDequeue /\ UNCHANGED <<vecIdle, linked, fx, stack, sll>>
  \/ CQPeek("CircularQueue::PeekFront", cqueue.front)
       /\ UNCHANGED <<vecIdle, linked, fx, stack, sll>>
  \/ CQPeek("CircularQueue::PeekRear", CQLast(cqueue))
       /\ UNCHANGED <<vecIdle, linked, fx, stack, sll>>

SpecCQ == CQInit /\ [][NextCQ]_vars

\* the values in the queue, from front to rear
CQElems ==
  [i \in 1 .. cqueue.size |->
     cqueue.queue[(cqueue.front + i - 1) % cqueue.capacity]]

\* ============================================================== SLLQueue
\* The heap maps each address to the Node stored there.  An address that
\* holds no Node (never allocated, or deleted) is not live: its content is
\* indeterminate, a read through a pointer to it yields any value, and new
\* may hand it out again.  fx.oob records that the last call read, wrote or
\* deleted through a pointer to an address that is not live.
Nodes == 1 .. MaxNodes

\* the address after delete
Deleted == [val |-> Indet, next |-> Null, live |-> FALSE]

\* p->val and p->next as rvalues
ReadVal(h, p) == IF h[p].live THEN {h[p].val} ELSE Val
ReadNext(h, p) == IF h[p].live THEN {h[p].next} ELSE {Null} \cup Nodes


\* SLLQueue(): front(nullptr), rear(nullptr)
SLLInit ==
  /\ sll = [front |-> Null, rear |-> Null, heap |-> [p \in Nodes |-> Deleted]]
  /\ last = Call("SLLQueue()", NoVal, NoVal, NoVal, "none")
  /\ fx = Fx(FALSE, FALSE)
  /\ NoVector
  /\ stack = None.stack
  /\ cqueue = None.cqueue
  /\ shadow = None.shadow
  /\ sstack = None.sstack
  /\ slist = None.slist
  /\ dlist = None.dlist

\* IsEmpty()
SLLIsEmpty(q) == q.front = Null

\* Dequeue()
SLLDequeue ==
  IF SLLIsEmpty(sll)
    THEN /\ last' = Call("SLLQueue::Dequeue", NoVal, NoVal, NoVal,
                         "EmptyDeletion")
         /\ fx' = Fx(FALSE, FALSE)
         /\ UNCHANGED <<sll, shadow>>
    ELSE \E result \in ReadVal(sll.heap, sll.front) :
         \E nx \in ReadNext(sll.heap, sll.front) :
           LET tmp == sll.front
           IN  /\ sll' = [front |-> nx,
                          rear |-> IF nx = Null THEN Null ELSE sll.rear,
                          heap |-> [sll.heap EXCEPT ![tmp] = Deleted]]
               /\ last' = Call("SLLQueue::Dequeue", NoVal, NoVal, result,
                               "none")
               /\ fx' = Fx(~sll.heap[tmp].live, FALSE)
               /\ shadow' = Removed(shadow, "none", FALSE)

\* Enqueue(T value): the new node is linked behind rear also when the queue
\* was empty and rear is the new node itself
SLLEnqueue(v) ==
  \E new_node \in {p \in Nodes : ~sll.heap[p].live} :
    LET h == [sll.heap EXCEPT ![new_node] =
                               [val |-> v, next |-> Null, live |-> TRUE]]
        empty == SLLIsEmpty(sll)
        f == IF empty THEN new_node ELSE sll.front
        r == IF empty THEN new_node ELSE sll.rear
    IN  /\ sll' = [front |-> f, rear |-> new_node,
                   heap |-> IF h[r].live THEN [h EXCEPT ![r].next = new_node]
                           ELSE h]
        /\ last' = Call("SLLQueue::Enqueue", v, NoVal, NoVal, "none")
        /\ fx' = Fx(~h[r].live, FALSE)
        /\ shadow' = Inserted(shadow, v, "none")

\* PeekFront() const, PeekRear() const
SLLPeek(name, p) ==
  /\ UNCHANGED <<sll, shadow>>
  /\ IF SLLIsEmpty(sll)
       THEN /\ last' = Call(name, NoVal, NoVal, NoVal, "ObjectEmpty")
            /\ fx' = Fx(FALSE, FALSE)
       ELSE \E r \in ReadVal(sll.heap, p) :
              /\ last' = Call(name, NoVal, NoVal, r, "none")
              /\ fx' = Fx(~sll.heap[p].live, FALSE)


\* the loop of the destructor, entered with tmp and with oob telling whether
\* a delete has already hit an address that is not live: every heap it can
\* leave behind.  done is FALSE when the walk reaches nullptr before rear and
\* reads nullptr->next.  A walk that passes more nodes than there are
\* addresses only by reading deleted nodes is not followed further.
\*   while (tmp != rear) { Node *next{tmp->next}; delete tmp; tmp = next; }
\* ~SLLQueue(): the loop from front, then delete rear
SLLDestroy ==
  LET RECURSIVE SLLRelease(_, _, _, _)
      SLLRelease(h, tmp, oob, fuel) ==
        IF tmp = sll.rear THEN {[heap |-> h, oob |-> oob, done |-> TRUE]}
        ELSE IF tmp = Null THEN {[heap |-> h, oob |-> TRUE, done |-> FALSE]}
        ELSE IF fuel = 0 THEN {}
        ELSE UNION {SLLRelease([h EXCEPT ![tmp] = Deleted], next,
                               oob \/ ~h[tmp].live, fuel - 1) :
                      next \in ReadNext(h, tmp)}
  IN
  \E r \in SLLRelease(sll.heap, sll.front, FALSE, MaxNodes + 1) :
    /\ sll' = [sll EXCEPT !.heap =
                 IF r.done /\ sll.rear # Null
                   THEN [r.heap EXCEPT ![sll.rear] = Deleted]
                   ELSE r.heap]
    /\ last' = Call("SLLQueue::~SLLQueue", NoVal, NoVal, NoVal,
                    IF r.done THEN "none" ELSE "crash")
    /\ fx' = Fx(r.oob \/ (r.done /\ sll.rear # Null
                             /\ ~r.heap[sll.rear].live), FALSE)
    /\ UNCHANGED shadow

\* SpecSLL: every operation of an SLLQueue, in any order, and the destructor
\* at any time
NextSLL ==
  \/ \E v \in Val : last.op # "SLLQueue::~SLLQueue" /\ SLLEnqueue(v)
       /\ UNCHANGED <<vecIdle, linked, stack, cqueue>>
  \/ last.op # "SLLQueue::~SLLQueue" /\ SLLDequeue
       /\ UNCHANGED <<vecIdle, linked, stack, cqueue>>
  \/ last.op # "SLLQueue::~SLLQueue"
       /\ SLLPeek("SLLQueue::PeekFront", sll.front)
       /\ UNCHANGED <<vecIdle, linked, stack, cqueue>>
  \/ last.op # "SLLQueue::~SLLQueue"
       /\ SLLPeek("SLLQueue::PeekRear", sll.rear)
       /\ UNCHANGED <<vecIdle, linked, stack, cqueue>>
  \/ last.op # "SLLQueue::~SLLQueue" /\ SLLDestroy
       /\ UNCHANGED <<vecIdle, linked, stack, cqueue>>

SpecSLL == SLLInit /\ [][NextSLL]_vars

\* ============================================================== SLLStack
\* The heaps of SLLStack and SinglyLinkedList map the addresses
\* 1 .. MaxListNodes to Node objects with the members data and next; an
\* address that holds no Node is not live, as in the heap of SLLQueue.
ListNodes == 1 .. MaxListNodes

\* Node(T data) : data(data), next(nullptr)
ListNode(v) == [data |-> v, next |-> Null, live |-> TRUE]

Freed == [data |-> Indet, next |-> Null, live |-> FALSE]

\* the addresses new can return
Free(h) == {p \in DOMAIN h : ~h[p].live}

\* the nodes met by following next from p, at most fuel of them
RECURSIVE Chain(_, _, _)
Chain(h, p, fuel) ==
  IF p = Null \/ fuel = 0 THEN <<>>
  ELSE <<p>> \o Chain(h, h[p].next, fuel - 1)

\* the chain from p ends at nullptr and every node of it is live
ChainLive(h, p) ==
  LET c == Chain(h, p, Len(h) + 1)
  IN  Len(c) <= Len(h) /\ \A i \in 1 .. Len(c) : h[c[i]].live

\* the data members along the chain from p
ChainData(h, p) ==
  LET c == Chain(h, p, Len(h) + 1) IN [i \in 1 .. Len(c) |-> h[c[i]].data]

\* SLLStack(): top(nullptr)
SSInit ==
  /\ sstack = [top |-> Null, heap |-> [p \in ListNodes |-> Freed]]
  /\ last = Call("SLLStack()", NoVal, NoVal, NoVal, "none")
  /\ fx = Fx(FALSE, FALSE)
  /\ NoVector
  /\ stack = None.stack
  /\ cqueue = None.cqueue
  /\ sll = None.sll
  /\ shadow = None.shadow
  /\ slist = None.slist
  /\ dlist = None.dlist

\* IsEmpty(), Size()
SSIsEmpty(st) == st.top = Null
SSSize(st) == Len(Chain(st.heap, st.top, Len(st.heap) + 1))

SSLinkNone(st) == Null

\* new_node->next = top
SSLink(st) == st.top

\* Push(T val)
SSPush(v) ==
  \E new_node \in Free(sstack.heap) :
    /\ sstack' = [top |-> new_node,
                  heap |-> [sstack.heap EXCEPT
                              ![new_node] = [ListNode(v) EXCEPT
                                               !.next = SSLink(sstack)]]]
    /\ last' = Call("SLLStack::Push", v, NoVal, NoVal, "none")
    /\ fx' = Fx(FALSE, FALSE)
    /\ shadow' = Inserted(shadow, v, "none")

\* Pop()
SSPop ==
  IF SSIsEmpty(sstack)
    THEN /\ last' = Call("SLLStack::Pop", NoVal, NoVal, NoVal,
                         "EmptyDeletion")
         /\ fx' = Fx(FALSE, FALSE)
         /\ UNCHANGED <<sstack, shadow>>
    ELSE LET tmp == sstack.top
             h == sstack.heap
         IN  \E val \in (IF h[tmp].live THEN {h[tmp].data} ELSE Val) :
             \E nx \in (IF h[tmp].live THEN {h[tmp].next}
                                       ELSE {Null} \cup DOMAIN h) :
               /\ sstack' = [top |-> nx, heap |-> [h EXCEPT ![tmp] = Freed]]
               /\ last' = Call("SLLStack::Pop", NoVal, NoVal, val, "none")
               /\ fx' = Fx(~h[tmp].live, FALSE)
               /\ shadow' = Removed(shadow, "none", TRUE)

\* Top() const
SSTop ==
  /\ UNCHANGED <<sstack, shadow>>
  /\ IF SSIsEmpty(sstack)
       THEN /\ last' = Call("SLLStack::Top", NoVal, NoVal, NoVal,
                            "PeekAtEmpty")
            /\ fx' = Fx(FALSE, FALSE)
       ELSE LET h == sstack.heap
                p == sstack.top
            IN  \E r \in (IF h[p].live THEN {h[p].data} ELSE Val) :
                  /\ last' = Call("SLLStack::Top", NoVal, NoVal, r, "none")
                  /\ fx' = Fx(~h[p].live, FALSE)

\* SpecSS: Push, Pop and Top on an SLLStack, in any order
NextSS ==
  \/ \E v \in Val :
       SSPush(v) /\ UNCHANGED <<vecIdle, stack, cqueue, sll, slist, dlist>>
  \/ SSPop /\ UNCHANGED <<vecIdle, stack, cqueue, sll, slist, dlist>>
  \/ SSTop /\ UNCHANGED <<vecIdle, stack, cqueue, sll, slist, dlist>>

SpecSS == SSInit /\ [][NextSS]_vars

\* ====================================================== SinglyLinkedList
\* Every operation walks the chain from head_.  fx.oob records that the list
\* the call worked on reaches an address that is not live.
Positions == 0 .. (MaxListNodes + 1)

\* the node reached from p after k steps along next, or nullptr if the chain
\* ends before
RECURSIVE Walk(_, _, _)
Walk(h, p, k) == IF k = 0 \/ p = Null THEN p ELSE Walk(h, h[p].next, k - 1)

FindPassesMatch(d, value) == d = value

\* tmp->data != value: Find goes on to the next node
FindPasses(d, value) == d # value

\* while (tmp && tmp->data != value) { ++count; tmp = tmp->next; }
RECURSIVE FindCount(_, _, _, _, _)
FindCount(h, p, value, count, fuel) ==
  IF p = Null \/ fuel = 0 THEN [tmp |-> Null, count |-> count]
  ELSE IF ~FindPasses(h[p].data, value) THEN [tmp |-> p, count |-> count]
  ELSE FindCount(h, h[p].next, value, count + 1, fuel - 1)

\* a sequence with v put at index pos, and with the element at index pos
\* taken out (indexes from 0)
SeqInsert(q, pos, v) ==
  SubSeq(q, 1, pos) \o <<v>> \o SubSeq(q, pos + 1, Len(q))
SeqRemove(q, pos) == SubSeq(q, 1, pos) \o SubSeq(q, pos + 2, Len(q))

\* what a positional insertion or removal that ended with err does to the
\* shadow of a list
ListInserted(sh, pos, v, err) ==
  IF err # "none" THEN sh
  ELSE IF pos > Len(sh.vals) THEN Shadow(sh.vals, TRUE)
  ELSE Shadow(SeqInsert(sh.vals, pos, v), sh.lost)

ListRemoved(sh, pos, err) ==
  IF err # "none" THEN sh
  ELSE IF pos >= Len(sh.vals) THEN Shadow(sh.vals, TRUE)
  ELSE Shadow(SeqRemove(sh.vals, pos), sh.lost)

\* SinglyLinkedList(): head_(nullptr)
SLInit ==
  /\ slist = [head_ |-> Null, heap |-> [p \in ListNodes |-> Freed]]
  /\ last = Call("SinglyLinkedList()", NoVal, NoVal, NoVal, "none")
  /\ fx = Fx(FALSE, FALSE)
  /\ NoVector
  /\ stack = None.stack
  /\ cqueue = None.cqueue
  /\ sll = None.sll
  /\ shadow = None.shadow
  /\ sstack = None.sstack
  /\ dlist = None.dlist

\* Size(), GetAsVector()
SLSize(l) == Len(Chain(l.heap, l.head_, Len(l.heap) + 1))
SLGetAsVector(l) == ChainData(l.heap, l.head_)

\* the effects every call has on last, fx and shadow
SLDone(op, v, pos, ret, err, sh) ==
  /\ last' = Call(op, v, pos, ret, err)
  /\ fx' = Fx(~ChainLive(slist.heap, slist.head_), FALSE)
  /\ shadow' = sh

\* Find(T value) const
SLFind(value) ==
  LET r == FindCount(slist.heap, slist.head_, value, 0, Len(slist.heap) + 1)
  IN  /\ UNCHANGED slist
      /\ IF r.tmp = Null
           THEN SLDone("SinglyLinkedList::Find", value, NoVal, NoVal,
                       "ItemNotFound", shadow)
           ELSE SLDone("SinglyLinkedList::Find", value, NoVal, r.count,
                       "none", shadow)

\* new_node->next = head_; head_ = new_node
SLPushFront(l, new_node, value) ==
  [head_ |-> new_node,
   heap |-> [l.heap EXCEPT ![new_node] = [ListNode(value) EXCEPT
                                            !.next = l.head_]]]

\* InsertAtBeginning(T value)
SLInsertAtBeginning(value) ==
  \E new_node \in Free(slist.heap) :
    /\ slist' = SLPushFront(slist, new_node, value)
    /\ SLDone("SinglyLinkedList::InsertAtBeginning", value, NoVal, NoVal,
              "none", ListInserted(shadow, 0, value, "none"))

\* InsertAtEnd(T value)
SLInsertAtEnd(value) ==
  \E new_node \in Free(slist.heap) :
    LET h == [slist.heap EXCEPT ![new_node] = ListNode(value)]
        \* while (tmp->next) tmp = tmp->next
        RECURSIVE LastNode(_, _)
        LastNode(p, fuel) ==
          IF h[p].next = Null \/ fuel = 0 THEN p
          ELSE LastNode(h[p].next, fuel - 1)
    IN  /\ slist' = IF slist.head_ = Null
                      THEN [head_ |-> new_node, heap |-> h]
                      ELSE [head_ |-> slist.head_,
                            heap |-> [h EXCEPT
                                        ![LastNode(slist.head_, Len(h))]
                                           .next = new_node]]
        /\ SLDone("SinglyLinkedList::InsertAtEnd", value, NoVal, NoVal,
                  "none",
                  ListInserted(shadow, Len(shadow.vals), value, "none"))

SLStepsTooFar(pos) == pos

\* the steps of the walk to the node before position pos: count < pos - 1
SLSteps(pos) == pos - 1

\* InsertAtPosition(uint32_t pos, T value)
SLInsertAtPosition(pos, value) ==
  LET tmp == Walk(slist.heap, slist.head_, SLSteps(pos))
  IN  IF pos # 0 /\ tmp = Null
        THEN /\ UNCHANGED slist
             /\ SLDone("SinglyLinkedList::InsertAtPosition", value, pos,
                       NoVal, "IndexOutOfRange", shadow)
        ELSE \E newNode \in Free(slist.heap) :
               /\ slist' =
                    IF pos = 0 THEN SLPushFront(slist, newNode, value)
                    ELSE [head_ |-> slist.head_,
                          heap |-> [slist.heap EXCEPT
                                      ![newNode] =
                                         [ListNode(value) EXCEPT
                                            !.next = slist.heap[tmp].next],
                                      ![tmp].next = newNode]]
               /\ SLDone("SinglyLinkedList::InsertAtPosition", value, pos,
                         NoVal, "none",
                         ListInserted(shadow, pos, value, "none"))

\* DeleteAtBeggining()
SLDeleteAtBeggining ==
  IF slist.head_ = Null
    THEN /\ UNCHANGED slist
         /\ SLDone("SinglyLinkedList::DeleteAtBeggining", NoVal, NoVal, NoVal,
                   "EmptyDeletion", shadow)
    ELSE /\ slist' = [head_ |-> slist.heap[slist.head_].next,
                      heap |-> [slist.heap EXCEPT ![slist.head_] = Freed]]
         /\ SLDone("SinglyLinkedList::DeleteAtBeggining", NoVal, NoVal, NoVal,
                   "none", ListRemoved(shadow, 0, "none"))

\* DeleteAtEnd()
SLDeleteAtEnd ==
  IF slist.head_ = Null
    THEN /\ UNCHANGED slist
         /\ SLDone("SinglyLinkedList::DeleteAtEnd", NoVal, NoVal, NoVal,
                   "EmptyDeletion", shadow)
    ELSE /\ slist' =
              IF slist.heap[slist.head_].next = Null
                THEN [head_ |-> Null,
                      heap |-> [slist.heap EXCEPT ![slist.head_] = Freed]]
                ELSE LET h == slist.heap
                         \* while (tmp->next->next != nullptr) tmp = tmp->next
                         RECURSIVE BeforeLast(_, _)
                         BeforeLast(p, fuel) ==
                           IF h[h[p].next].next = Null \/ fuel = 0 THEN p
                           ELSE BeforeLast(h[p].next, fuel - 1)
                         tmp == BeforeLast(slist.head_, Len(h))
                     IN  [head_ |-> slist.head_,
                          heap |-> [h EXCEPT ![h[tmp].next] = Freed,
                                             ![tmp].next = Null]]
         /\ SLDone("SinglyLinkedList::DeleteAtEnd", NoVal, NoVal, NoVal,
                   "none", ListRemoved(shadow, Len(shadow.vals) - 1, "none"))

SLSkipAll(h, toDelete) == Null

\* tmp->next = toDelete->next
SLSkip(h, toDelete) == h[toDelete].next

\* DeleteAtPosition(uint32_t pos)
SLDeleteAtPosition(pos) ==
  LET h == slist.heap
      tmp == Walk(h, slist.head_, SLSteps(pos))
      err == IF slist.head_ = Null THEN "EmptyDeletion"
             ELSE IF pos # 0 /\ (tmp = Null \/ h[tmp].next = Null)
               THEN "IndexOutOfRange"
             ELSE "none"
  IN  /\ slist' =
           IF err # "none" THEN slist
           ELSE IF pos = 0
             THEN [head_ |-> h[slist.head_].next,
                   heap |-> [h EXCEPT ![slist.head_] = Freed]]
           ELSE LET toDelete == h[tmp].next
                IN  [head_ |-> slist.head_,
                     heap |-> [h EXCEPT ![tmp].next = SLSkip(h, toDelete),
                                        ![toDelete] = Freed]]
      /\ SLDone("SinglyLinkedList::DeleteAtPosition", NoVal, pos, NoVal, err,
                ListRemoved(shadow, pos, err))

\* SpecSL: every operation of a SinglyLinkedList, in any order
NextSL ==
  \/ \E v \in Val : SLFind(v)
       /\ UNCHANGED <<vecIdle, stack, cqueue, sll, sstack, dlist>>
  \/ \E v \in Val : SLInsertAtBeginning(v)
       /\ UNCHANGED <<vecIdle, stack, cqueue, sll, sstack, dlist>>
  \/ \E v \in Val : SLInsertAtEnd(v)
       /\ UNCHANGED <<vecIdle, stack, cqueue, sll, sstack, dlist>>
  \/ \E pos \in Positions : \E v \in Val : SLInsertAtPosition(pos, v)
       /\ UNCHANGED <<vecIdle, stack, cqueue, sll, sstack, dlist>>
  \/ SLDeleteAtBeggining
       /\ UNCHANGED <<vecIdle, stack, cqueue, sll, sstack, dlist>>
  \/ SLDeleteAtEnd
       /\ UNCHANGED <<vecIdle, stack, cqueue, sll, sstack, dlist>>
  \/ \E pos \in Positions : SLDeleteAtPosition(pos)
       /\ UNCHANGED <<vecIdle, stack, cqueue, sll, sstack, dlist>>

SpecSL == SLInit /\ [][NextSL]_vars

\* ====================================================== DoublyLinkedList
\* Node objects have the members next, previous and data.  A call that goes
\* through a pointer to an address that is not live has undefined behaviour:
\* it works on a view of the heap in which the released addresses it reads
\* first (the first one on the chain from head_, head_ or tail_ themselves)
\* hold arbitrary content; any other released address reads as zero.  A call
\* that dereferences nullptr ends the run ("crash"); a call whose walk never
\* reaches nullptr does not return.  fx.oob records that the call went
\* through a pointer that was dangling when the call began.
DNode(v) == [next |-> Null, previous |-> Null, data |-> v, live |-> TRUE]

DFreed == [next |-> Null, previous |-> Null, data |-> Indet, live |-> FALSE]

Range(q) == {q[i] : i \in 1 .. Len(q)}

Live(h) == DOMAIN h \ Free(h)

\* the first released address on the chain from head_, if there is one
FirstDead(l) ==
  {p \in Range(Chain(l.heap, l.head_, Len(l.heap) + 1)) : ~l.heap[p].live}

\* the released addresses that head_, tail_ or a live node point to
Dangling(l) ==
  Free(l.heap) \cap ({l.head_, l.tail_}
                       \cup {l.heap[q].next : q \in Live(l.heap)}
                       \cup {l.heap[q].previous : q \in Live(l.heap)})

\* new Node(data): the allocator returns any address that is not live.  The
\* addresses no pointer of the list leads to are interchangeable, so the
\* lowest of them stands for all of them.
DLAlloc(l) ==
  LET fresh == Free(l.heap) \ Dangling(l)
  IN  Dangling(l) \cup {p \in fresh : \A q \in fresh : p <= q}

\* the list as a call that reads the addresses in t can see it: a released
\* node holds any pointers and any data
Views(l, t) ==
  {[l EXCEPT !.heap = [p \in DOMAIN l.heap |->
                         IF p \in DOMAIN g THEN g[p] ELSE l.heap[p]]] :
     g \in [t \cap Free(l.heap) ->
              [next : {Null} \cup DOMAIN l.heap,
               previous : {Null} \cup DOMAIN l.heap,
               data : Val, live : {FALSE}]]}

\* the outcome of a call: the list, the result, the error, and the
\* addresses the call went through
Outcome(l, ret, err, touched) ==
  [l |-> l, ret |-> ret, err |-> err, touched |-> touched]

\* DoublyLinkedList(): head_(nullptr), tail_(nullptr)
DLInit ==
  /\ dlist = [head_ |-> Null, tail_ |-> Null,
              heap |-> [p \in ListNodes |-> DFreed]]
  /\ last = Call("DoublyLinkedList()", NoVal, NoVal, NoVal, "none")
  /\ fx = Fx(FALSE, FALSE)
  /\ NoVector
  /\ stack = None.stack
  /\ cqueue = None.cqueue
  /\ sll = None.sll
  /\ shadow = None.shadow
  /\ sstack = None.sstack
  /\ slist = None.slist

\* IsEmpty(), Size(), GetAsVector().  A walk along next that passes more
\* nodes than there are addresses never reaches nullptr.
DLIsEmpty(l) == l.head_ = Null
DLSize(l) == Len(Chain(l.heap, l.head_, Len(l.heap) + 1))
DLGetAsVector(l) == ChainData(l.heap, l.head_)
DLChain(l) == Range(Chain(l.heap, l.head_, Len(l.heap) + 1))

\* the effects of a call with outcome r: the content of a released address
\* is forgotten, and fx.oob tells whether the call went through an address
\* that was not live when it began.  Once the list holds a dangling pointer,
\* a run is followed through the calls that go through such a pointer only.
DLDone(op, v, pos, r, sh) ==
  /\ r.err # "hang"
  /\ dlist' = IF r.err = "none"
                THEN [r.l EXCEPT !.heap =
                        [p \in DOMAIN @ |-> IF @[p].live THEN @[p] ELSE DFreed]]
                ELSE dlist
  /\ last' = Call(op, v, pos, r.ret, r.err)
  /\ fx' = Fx(r.err = "crash"
                \/ (r.touched \ {Null}) \ Live(dlist.heap) # {}, FALSE)
  /\ Dangling(dlist) # {} => fx'.oob
  /\ shadow' = sh

\* Find(const T value) const
DLFind(value) ==
  \E l \in Views(dlist, FirstDead(dlist)) :
  LET r == FindCount(l.heap, l.head_, value, 0, Len(l.heap) + 1)
      c == Chain(l.heap, l.head_, Len(l.heap) + 1)
  IN  IF r.tmp = Null
        THEN DLDone("DoublyLinkedList::Find", value, NoVal,
                    Outcome(l, NoVal,
                            IF DLSize(l) <= Len(l.heap) THEN "ItemNotFound"
                            ELSE "hang", Range(c)),
                    shadow)
        ELSE DLDone("DoublyLinkedList::Find", value, NoVal,
                    Outcome(l, r.count, "none",
                            {c[i] : i \in 1 .. (r.count + 1)}),
                    shadow)

\* InsertAtBeginning(const T value), after new Node(value) returned new_node
DLInsertAtBeginningOutcome(l, new_node, value) ==
  LET h == [l.heap EXCEPT ![new_node] = DNode(value)]
  IN  IF DLIsEmpty(l)
        THEN Outcome([head_ |-> new_node, tail_ |-> new_node, heap |-> h],
                     NoVal, "none", {})
        ELSE Outcome([head_ |-> new_node, tail_ |-> l.tail_,
                      heap |-> [h EXCEPT ![new_node].next = l.head_,
                                         ![l.head_].previous = new_node]],
                     NoVal, "none", {l.head_})

DLInsertAtBeginning(value) ==
  \E l \in Views(dlist, {}) : \E new_node \in DLAlloc(dlist) :
    LET r == DLInsertAtBeginningOutcome(l, new_node, value)
    IN  DLDone("DoublyLinkedList::InsertAtBeginning", value, NoVal, r,
               ListInserted(shadow, 0, value, r.err))

\* InsertAtEnd(const T value), after new Node(value) returned new_node
DLInsertAtEndOutcome(l, new_node, value) ==
  LET h == [l.heap EXCEPT ![new_node] = DNode(value)]
  IN  IF DLIsEmpty(l)
        THEN Outcome([head_ |-> new_node, tail_ |-> new_node, heap |-> h],
                     NoVal, "none", {})
      ELSE IF l.tail_ = Null THEN Outcome(l, NoVal, "crash", {})
      ELSE Outcome([head_ |-> l.head_, tail_ |-> new_node,
                    heap |-> [h EXCEPT ![l.tail_].next = new_node,
                                       ![new_node].previous = l.tail_]],
                   NoVal, "none", {l.tail_})

DLInsertAtEnd(value) ==
  \E l \in Views(dlist, {}) : \E new_node \in DLAlloc(dlist) :
    LET r == DLInsertAtEndOutcome(l, new_node, value)
    IN  DLDone("DoublyLinkedList::InsertAtEnd", value, NoVal, r,
               ListInserted(shadow, Len(shadow.vals), value, r.err))

DLInsertThrowsLate(pos, current_size) == pos > current_size + 1

\* if (pos > current_size) throw
DLInsertThrows(pos, current_size) == pos > current_size

\* InsertAtPosition(const uint32_t pos, const T value)
DLInsertAtPosition(pos, value) ==
  \E l \in Views(dlist, FirstDead(dlist)) :
    LET current_size == DLSize(l)
        name == "DoublyLinkedList::InsertAtPosition"
    IN  IF DLSize(l) > Len(l.heap)
          THEN DLDone(name, value, pos, Outcome(l, NoVal, "hang", {}),
                      shadow)
        ELSE IF DLInsertThrows(pos, current_size)
          THEN DLDone(name, value, pos,
                      Outcome(l, NoVal, "IndexOutOfRange", DLChain(l)),
                      shadow)
        ELSE \E new_node \in DLAlloc(dlist) :
               LET h == [l.heap EXCEPT ![new_node] = DNode(value)]
                   prev_node == Walk(h, l.head_, pos - 1)
                   next_node == h[prev_node].next
                   h2 == [h EXCEPT ![new_node].next = next_node,
                                   ![new_node].previous = prev_node,
                                   ![prev_node].next = new_node]
                   r0 == IF pos = 0
                           THEN DLInsertAtBeginningOutcome(l, new_node, value)
                         ELSE IF pos = current_size
                           THEN DLInsertAtEndOutcome(l, new_node, value)
                         ELSE IF prev_node = Null
                           THEN Outcome(l, NoVal, "crash", {})
                         ELSE Outcome([head_ |-> l.head_, tail_ |-> l.tail_,
                                       heap |-> IF next_node = Null THEN h2
                                                ELSE [h2 EXCEPT
                                                        ![next_node].previous =
                                                           new_node]],
                                      NoVal, "none", {})
                   r == [r0 EXCEPT !.touched = @ \cup DLChain(l)]
               IN  DLDone(name, value, pos, r,
                          ListInserted(shadow, pos, value, r.err))

\* DeleteAtBeginning()
DLDeleteAtBeginningOutcome(l) ==
  IF DLIsEmpty(l) THEN Outcome(l, NoVal, "EmptyDeletion", {})
  ELSE IF l.head_ = l.tail_
    THEN Outcome([head_ |-> Null, tail_ |-> Null,
                  heap |-> [l.heap EXCEPT ![l.head_] = DFreed]],
                 NoVal, "none", {l.head_})
  ELSE LET tmp == l.head_
           nh == l.heap[tmp].next
       IN  IF nh = Null THEN Outcome(l, NoVal, "crash", {tmp})
           ELSE Outcome([head_ |-> nh, tail_ |-> l.tail_,
                         heap |-> [l.heap EXCEPT ![nh].previous = Null,
                                                 ![tmp] = DFreed]],
                        NoVal, "none", {tmp, nh})

DLDeleteAtBeginning ==
  \E l \in Views(dlist, {dlist.head_}) :
    LET r == DLDeleteAtBeginningOutcome(l)
    IN  DLDone("DoublyLinkedList::DeleteAtBeginning", NoVal, NoVal, r,
               ListRemoved(shadow, 0, r.err))

\* DeleteAtEnd()
DLDeleteAtEndOutcome(l) ==
  IF DLIsEmpty(l) THEN Outcome(l, NoVal, "EmptyDeletion", {})
  ELSE IF l.head_ = l.tail_
    THEN Outcome([head_ |-> Null, tail_ |-> Null,
                  heap |-> [l.heap EXCEPT ![l.head_] = DFreed]],
                 NoVal, "none", {l.head_})
  ELSE IF l.tail_ = Null THEN Outcome(l, NoVal, "crash", {})
  ELSE LET tmp == l.tail_
           nt == l.heap[tmp].previous
       IN  IF nt = Null THEN Outcome(l, NoVal, "crash", {tmp})
           ELSE Outcome([head_ |-> l.head_, tail_ |-> nt,
                         heap |-> [l.heap EXCEPT ![nt].next = Null,
                                                 ![tmp] = DFreed]],
                        NoVal, "none", {tmp, nt})

DLDeleteAtEnd ==
  \E l \in Views(dlist, {dlist.tail_}) :
    LET r == DLDeleteAtEndOutcome(l)
    IN  DLDone("DoublyLinkedList::DeleteAtEnd", NoVal, NoVal, r,
               ListRemoved(shadow, Len(shadow.vals) - 1, r.err))

\* the value DeleteAtPosition stores in next_node->previous:
\* next_node->previous = next_node
DLRelink(prev_node, next_node) == next_node

\* DeleteAtPosition of a node that is neither the first nor the last
DLUnlinkOutcome(l, pos) ==
  LET h == l.heap
      curr == Walk(h, l.head_, pos)
      prev_node == h[curr].previous
      next_node == h[curr].next
      h1 == IF prev_node = Null THEN h
            ELSE [h EXCEPT ![prev_node].next = next_node]
      h2 == IF next_node = Null THEN h1
            ELSE [h1 EXCEPT ![next_node].previous =
                               DLRelink(prev_node, next_node)]
  IN  Outcome([head_ |-> l.head_, tail_ |-> l.tail_,
               heap |-> [h2 EXCEPT ![curr] = DFreed]],
              NoVal, "none", DLChain(l) \cup {prev_node})

\* DeleteAtPosition(uint32_t pos)
DLDeleteAtPosition(pos) ==
  \E l \in Views(dlist, FirstDead(dlist) \cup {dlist.tail_}) :
    LET current_size == DLSize(l)
        r0 == IF pos >= current_size
                THEN Outcome(l, NoVal, "IndexOutOfRange", {})
              ELSE IF pos = 0 THEN DLDeleteAtBeginningOutcome(l)
              ELSE IF pos = current_size - 1 THEN DLDeleteAtEndOutcome(l)
              ELSE DLUnlinkOutcome(l, pos)
        r == IF DLIsEmpty(l) THEN Outcome(l, NoVal, "EmptyDeletion", {})
             ELSE IF current_size > Len(l.heap)
               THEN Outcome(l, NoVal, "hang", {})
             ELSE [r0 EXCEPT !.touched = @ \cup DLChain(l)]
    IN  DLDone("DoublyLinkedList::DeleteAtPosition", NoVal, pos, r,
               ListRemoved(shadow, pos, r.err))

\* ~DoublyLinkedList(): every node of the chain from head_ is deleted
DLDestroy ==
  \E l \in Views(dlist, FirstDead(dlist)) :
    DLDone("DoublyLinkedList::~DoublyLinkedList", NoVal, NoVal,
           IF DLSize(l) > Len(l.heap) THEN Outcome(l, NoVal, "hang", {})
           ELSE Outcome([head_ |-> Null, tail_ |-> Null,
                         heap |-> [p \in DOMAIN l.heap |->
                                     IF p \in DLChain(l) THEN DFreed
                                     ELSE l.heap[p]]],
                        NoVal, "none", DLChain(l)),
           shadow)

\* the object exists, and no call has had undefined behaviour: a run is
\* followed up to and including its first such call
DLRunning ==
  ~fx.oob /\ last.op # "DoublyLinkedList::~DoublyLinkedList"

\* SpecDL: every operation of a DoublyLinkedList, in any order, and the
\* destructor at any time
NextDL ==
  \/ \E v \in Val : DLRunning /\ DLFind(v)
       /\ UNCHANGED <<vecIdle, stack, cqueue, sll, sstack, slist>>
  \/ \E v \in Val : DLRunning /\ DLInsertAtBeginning(v)
       /\ UNCHANGED <<vecIdle, stack, cqueue, sll, sstack, slist>>
  \/ \E v \in Val : DLRunning /\ DLInsertAtEnd(v)
       /\ UNCHANGED <<vecIdle, stack, cqueue, sll, sstack, slist>>
  \/ \E pos \in Positions : \E v \in Val :
       DLRunning /\ DLInsertAtPosition(pos, v)
       /\ UNCHANGED <<vecIdle, stack, cqueue, sll, sstack, slist>>
  \/ DLRunning /\ DLDeleteAtBeginning
       /\ UNCHANGED <<vecIdle, stack, cqueue, sll, sstack, slist>>
  \/ DLRunning /\ DLDeleteAtEnd
       /\ UNCHANGED <<vecIdle, stack, cqueue, sll, sstack, slist>>
  \/ \E pos \in Positions : DLRunning /\ DLDeleteAtPosition(pos)
       /\ UNCHANGED <<vecIdle, stack, cqueue, sll, sstack, slist>>
  \/ DLRunning /\ DLDestroy
       /\ UNCHANGED <<vecIdle, stack, cqueue, sll, sstack, slist>>

SpecDL == DLInit /\ [][NextDL]_vars

\* SpecLists: a SinglyLinkedList or a DoublyLinkedList, with every operation
\* of its class in any order
NextLists ==
  \/ slist # None.slist /\ NextSL
  \/ dlist # None.dlist /\ NextDL

SpecLists == (SLInit \/ DLInit) /\ [][NextLists]_vars

\* ------------------------------------------------------------ properties
\* the live elements e0 .. e(n-1), as a sequence
Elems == [i \in 1 .. size |-> Read(data, capacity, i - 1)]

\* the vector holds live elements e0 .. e(n-1): every index below size lies
\* inside the buffer and its slot has been given a value
Holds == size <= capacity /\ \A i \in 0 .. (size - 1) : data[i] \in Val

RECURSIVE Reverse(_)
Reverse(q) == IF q = <<>> THEN <<>> ELSE Append(Reverse(Tail(q)), Head(q))

\* C1: a loop from Begin() to End() over a vector holding n >= 1 elements
\* dereferences exactly e0, e1, ..., e(n-1), in that order.
C1_ForwardVisitsAll ==
  (it.st = "done" /\ it.kind = "fwd" /\ size >= 1 /\ Holds) => it.out = Elems

\* C2: Pop() on a vector holding n >= 1 elements returns e(n-1), makes the
\* size n-1 and leaves e0 .. e(n-2) alone; Push(v) directly followed by Pop()
\* returns v.
C2_PopReturnsLast ==
  [][(last'.op = "Pop" /\ size >= 1 /\ Holds) =>
       /\ last'.ret = data[size - 1]
       /\ size' = size - 1
       /\ \A i \in 0 .. (size - 2) : data'[i] = data[i]
       /\ (last.op = "Push" => last'.ret = last.v)]_vars

\* C3: size <= capacity in every reachable state, and no call writes an
\* element outside the buffer.
C3_SizeWithinCapacity == size <= capacity /\ ~fx.oob

\* C4: a Push or Insert made with size = capacity (capacity 0 included) raises
\* the capacity to at least max(1, 2 * capacity) before it writes, so that
\* afterwards capacity >= size >= 1.
C4_GrowsBeforeWrite ==
  [][(last'.op \in {"Push", "Insert"} /\ last'.err = "none"
        /\ size = capacity) =>
       /\ capacity' >= (IF 2 * capacity > 1 THEN 2 * capacity ELSE 1)
       /\ capacity' >= size'
       /\ size' >= 1
       /\ ~fx'.oob]_vars

\* C5: a default-constructed vector has size 0 and capacity 4; a Push with
\* size = capacity = C >= 1 makes the capacity exactly 2 * C and a Push with
\* size < capacity leaves it alone; from the default vector the capacity is 4
\* after 4 pushes, 8 after the 5th and 16 after the 9th.
C5_GrowthLaw ==
  /\ [](last.op = "Vector()" => size = 0 /\ capacity = 4)
  /\ [][(last'.op = "Push" /\ size = capacity /\ capacity >= 1) =>
          capacity' = 2 * capacity]_vars
  /\ [][(last'.op = "Push" /\ size < capacity) => capacity' = capacity]_vars
  /\ [](rt.origin = "Vector()" =>
          /\ (rt.n = 4 => capacity = 4)
          /\ (rt.n \in 5 .. 8 => capacity = 8)
          /\ (rt.n = 9 => capacity = 16))

C5_Witness == rt.origin = "Vector()" /\ rt.n = 9 /\ capacity = 16

\* C6: Push(v) on a vector holding e0 .. e(n-1) with capacity >= 1 makes the
\* size n+1, puts v at index n and keeps e(i) at every index i < n, also when
\* the buffer was reallocated.
C6_PushAppends ==
  [][(last'.op = "Push" /\ capacity >= 1 /\ Holds) =>
       /\ size' = size + 1
       /\ Read(data', capacity', size) = last'.v
       /\ \A i \in 0 .. (size - 1) : Read(data', capacity', i) = data[i]]_vars

C6_Witness ==
  /\ last.op = "Push" /\ fx.moved
  /\ size = 3 /\ capacity = 4
  /\ data[0] # data[1] /\ data[2] = last.v

\* C7: Insert(v, k) with 0 <= k <= n on a vector holding e0 .. e(n-1) succeeds
\* and leaves e0 .. e(k-1), v, e(k) .. e(n-1) with size n+1, also for n = 0
\* and when size = capacity forces a reallocation.
C7_InsertAtPosition ==
  [][(last'.op = "Insert" /\ Holds /\ last'.idx <= size) =>
       /\ last'.err = "none"
       /\ size' = size + 1
       /\ \A i \in 0 .. size :
            Read(data', capacity', i) =
              IF i < last'.idx THEN data[i]
              ELSE IF i = last'.idx THEN last'.v
              ELSE data[i - 1]]_vars

C7_Witness ==
  /\ last.op = "Insert" /\ last.err = "none" /\ fx.moved
  /\ last.idx = 1 /\ size = 3 /\ capacity = 4
  /\ data[0] # data[1] /\ data[1] # data[2]

\* C8: At(index) reports IndexOutOfRange for every index >= size (the wrapped
\* -1 included) and Insert(v, index) for every index > size, and the failing
\* call leaves size, capacity and the elements as they were.
C8_OutOfRange ==
  [][/\ (last'.op = "At" /\ last'.idx >= size) =>
          (last'.err = "IndexOutOfRange" /\ UNCHANGED vec)
     /\ (last'.op = "Insert" /\ last'.idx > size) =>
          (last'.err = "IndexOutOfRange" /\ UNCHANGED vec)]_vars

C8_Witness ==
  /\ last.op = "At" /\ last.idx = SIZE_MAX /\ last.err = "IndexOutOfRange"
  /\ size >= 1 /\ Holds

\* C9: on a vector with capacity >= 1, n Push calls followed by n Pop calls
\* leave the size as it was before them; popping as many times as there are
\* elements leaves size 0.
C9_PushPopRoundTrip ==
  /\ (rt.cap0 >= 1 /\ rt.n = rt.k) => size = rt.base
  /\ (rt.pc > 0 /\ rt.pc = rt.pb) => size = 0

C9_Witness ==
  /\ rt.n = rt.k /\ rt.n >= 2
  /\ rt.cap0 >= 1 /\ capacity > rt.cap0
  /\ rt.base >= 1 /\ size = rt.base

\* C10: a loop from ReverseBegin()/ConstReverseBegin() to the matching end
\* over a vector holding e0 .. e(n-1), n >= 0, dereferences exactly e(n-1),
\* e(n-2), ..., e0 in that order and never the slot before the buffer; on an
\* empty vector rbegin() == rend().
C10_ReverseVisitsAll ==
  \A k \in {"rev", "constrev"} :
    /\ (it.kind = k /\ Holds) =>
         /\ Len(it.out) <= size
         /\ \A j \in 1 .. Len(it.out) :
              /\ it.visited[j] = size - j
              /\ it.visited[j] >= 0
              /\ it.out[j] = Reverse(Elems)[j]
         /\ (it.st = "done" => it.out = Reverse(Elems))
    /\ size = 0 => ~NotEqual(BeginPos(k, size), EndPos(k, size))

C10_Witness ==
  /\ it.kind = "rev" /\ it.st = "done" /\ Holds
  /\ size = 3 /\ Len(it.out) = 3 /\ data[0] # data[2]

\* C11: a loop from ConstBegin() to ConstEnd() over a vector holding
\* e0 .. e(n-1), n >= 0, dereferences exactly e0 .. e(n-1) in index order, and
\* cbegin() == cend() exactly when the vector is empty.
C11_ConstVisitsAll ==
  /\ (it.kind = "const" /\ Holds) =>
       /\ Len(it.out) <= size
       /\ \A j \in 1 .. Len(it.out) :
            it.visited[j] = j - 1 /\ it.out[j] = Elems[j]
       /\ (it.st = "done" => it.out = Elems)
  /\ size = 0 <=> ~NotEqual(BeginPos("const", size), EndPos("const", size))

C11_Witness ==
  /\ it.kind = "const" /\ it.st = "done" /\ Holds
  /\ size = 3 /\ Len(it.out) = 3 /\ data[0] # data[2]

\* C12: Vector(count) and Vector(count, value) give capacity count and size
\* 0, so At(i) reports IndexOutOfRange for every i, also i < count, and the
\* first Push(v) afterwards (count >= 1) stores v at index 0.
CountCtors == {"Vector(n)", "Vector(n,v)"}

C12_CountConstructors ==
  /\ [](last.op \in CountCtors => size = 0 /\ capacity = last.idx)
  /\ [][(rt.origin \in CountCtors /\ last'.op = "At") =>
          last'.err = "IndexOutOfRange"]_vars
  /\ [][(rt.origin \in CountCtors /\ rt.cap0 >= 1 /\ last'.op = "Push") =>
          /\ size' = 1
          /\ capacity' = capacity
          /\ data'[0] = last'.v]_vars

C12_Witness ==
  /\ rt.origin = "Vector(n,v)" /\ capacity = 3
  /\ last.op = "At" /\ last.idx = 1 /\ last.err = "IndexOutOfRange"
  /\ data[1] \in Val

\* C13: a vector built from a literal sequence L has size = capacity = |L|
\* and At(i) returns L[i] for every i < |L|.
C13_ListConstructor ==
  /\ [](last.op = "Vector(list)" =>
          /\ size = Len(last.v) /\ capacity = Len(last.v)
          /\ \A i \in 0 .. (Len(last.v) - 1) : data[i] = last.v[i + 1])
  /\ [][(last.op = "Vector(list)" /\ last'.op = "At"
           /\ last'.idx < Len(last.v)) =>
          /\ last'.err = "none"
          /\ last'.ret = last.v[last'.idx + 1]]_vars

C13_Witness ==
  /\ rt.origin = "Vector(list)" /\ size = 3 /\ capacity = 3
  /\ last.op = "At" /\ last.idx = 2 /\ last.ret = data[2]
  /\ data[0] # data[2]

C15_RejectedPushLeavesStack ==
  [][(last'.op = "ArrayStack::Push"
        /\ Len(shadow.vals) = stack.capacity /\ ~shadow.lost) =>
       /\ last'.err \in CapacityExceeded
       /\ stack' = stack
       /\ StackSize(stack') = stack.capacity
       /\ StackIsFull(stack')]_vars

\* C16: in every sequence of Push, Pop and Top calls on an ArrayStack,
\* rejected Push calls included, Pop returns the most recently pushed value
\* not yet popped, Top returns the same value and removes nothing, and on an
\* empty stack both report EmptyError.
C16_StackLifo ==
  [][(last'.op \in {"ArrayStack::Pop", "ArrayStack::Top"} /\ ~shadow.lost) =>
       /\ IF shadow.vals = <<>>
            THEN last'.err \in EmptyError
            ELSE /\ last'.err = "none"
                 /\ last'.ret = shadow.vals[Len(shadow.vals)]
       /\ last'.op = "ArrayStack::Top" => stack' = stack]_vars

\* C17: in every sequence of Enqueue and Dequeue calls on a CircularQueue of
\* capacity N, whatever the number of wrap-arounds of front, Enqueue succeeds
\* exactly when fewer than N values are waiting and the successful Dequeue
\* calls return the enqueued values in the order they were enqueued.
C17_CircularFifo ==
  /\ [](~shadow.lost /\ CQElems = shadow.vals)
  /\ [][(last'.op = "CircularQueue::Enqueue") =>
          (last'.err = "none" <=> Len(shadow.vals) < cqueue.capacity)]_vars
  /\ [][(last'.op = "CircularQueue::Dequeue" /\ shadow.vals # <<>>) =>
          /\ last'.err = "none"
          /\ last'.ret = Head(shadow.vals)
          /\ shadow'.vals = Tail(shadow.vals)]_vars

C17_Witness ==
  /\ last.op = "CircularQueue::Dequeue" /\ last.err = "none"
  /\ cqueue.capacity = 3 /\ cqueue.front = 2 /\ cqueue.size = 2
  /\ shadow.vals = <<cqueue.queue[2], cqueue.queue[0]>>
  /\ cqueue.queue[2] # cqueue.queue[0] /\ last.ret # cqueue.queue[2]

\* C18: Enqueue on a CircularQueue holding N values reports
\* CapacityExceeded, and Dequeue, PeekFront and PeekRear on an empty one
\* report EmptyError; a call that fails leaves front, the count and every
\* stored element unchanged.
C18_CircularFailures ==
  [][/\ (last'.op = "CircularQueue::Enqueue"
           /\ cqueue.size = cqueue.capacity) =>
          last'.err \in CapacityExceeded
     /\ (last'.op \in {"CircularQueue::Dequeue", "CircularQueue::PeekFront",
                       "CircularQueue::PeekRear"} /\ cqueue.size = 0) =>
          last'.err \in EmptyError
     /\ last'.err # "none" => cqueue' = cqueue]_vars

C18_Witness ==
  /\ last.op = "CircularQueue::Enqueue" /\ last.err = "ObjectFull"
  /\ cqueue.capacity = 3 /\ cqueue.size = 3 /\ cqueue.front = 1
  /\ cqueue.queue[0] # cqueue.queue[1]

\* C19: in every sequence of Enqueue and Dequeue calls on an SLLQueue, also
\* when the queue drops to one element or becomes empty and is refilled,
\* Dequeue returns the enqueued values in the order they were enqueued, each
\* exactly once.
C19_LinkedFifo ==
  [][(last'.op = "SLLQueue::Dequeue" /\ ~shadow.lost /\ shadow.vals # <<>>) =>
       /\ last'.err = "none"
       /\ last'.ret = Head(shadow.vals)]_vars

\* C20: whenever as many Dequeue calls have succeeded as Enqueue calls were
\* made, the SLLQueue is empty: IsEmpty() is true and front and rear are both
\* null.
C20_EmptyWhenDrained ==
  (shadow.vals = <<>> /\ ~shadow.lost) =>
    /\ SLLIsEmpty(sll)
    /\ sll.front = Null
    /\ sll.rear = Null

\* C21: in every sequence of Push, Pop and Top calls on an SLLStack, Push
\* never fails, Pop returns the most recently pushed value not yet popped and
\* releases its node, Top returns that value and changes nothing, Size() is
\* the number of pushes minus the number of successful pops, and Pop or Top
\* on an empty stack reports EmptyError and leaves the stack empty.
C21_LinkedStackLifo ==
  /\ [](/\ ~shadow.lost /\ ~fx.oob
        /\ ChainLive(sstack.heap, sstack.top)
        /\ ChainData(sstack.heap, sstack.top) = Reverse(shadow.vals)
        /\ SSSize(sstack) = Len(shadow.vals)
        /\ Cardinality(ListNodes \ Free(sstack.heap)) = Len(shadow.vals))
  /\ [][(last'.op = "SLLStack::Push") =>
          last'.err = "none" /\ sstack'.heap[sstack'.top].data = last'.v]_vars
  /\ [][(last'.op \in {"SLLStack::Pop", "SLLStack::Top"}) =>
          IF shadow.vals = <<>>
            THEN /\ last'.err \in EmptyError
                 /\ sstack' = sstack /\ SSIsEmpty(sstack')
            ELSE /\ last'.err = "none"
                 /\ last'.ret = shadow.vals[Len(shadow.vals)]
                 /\ IF last'.op = "SLLStack::Top"
                      THEN sstack' = sstack
                      ELSE /\ ~sstack'.heap[sstack.top].live
                           /\ SSSize(sstack') = SSSize(sstack) - 1]_vars

C21_Witness ==
  /\ last.op = "SLLStack::Pop" /\ last.err = "none"
  /\ SSSize(sstack) = 2 /\ shadow.vals = <<1, 2>> /\ last.ret = 1

\* C24: on a SinglyLinkedList of size n, InsertAtPosition(pos, v) with
\* pos <= n gives the sequence with v at index pos and the other elements in
\* their order (pos = 0 as InsertAtBeginning, pos = n as InsertAtEnd); with
\* pos > n it reports IndexOutOfRange, allocates no node and changes nothing.
C24_SinglyInsertAtPosition ==
  /\ [](ChainLive(slist.heap, slist.head_) /\ ~fx.oob)
  /\ [][(last'.op = "SinglyLinkedList::InsertAtPosition") =>
          IF last'.idx <= SLSize(slist)
            THEN /\ last'.err = "none"
                 /\ SLGetAsVector(slist') =
                      SeqInsert(SLGetAsVector(slist), last'.idx, last'.v)
            ELSE /\ last'.err = "IndexOutOfRange"
                 /\ slist' = slist]_vars
  /\ [][(last'.op = "SinglyLinkedList::InsertAtBeginning") =>
          SLGetAsVector(slist') =
            SeqInsert(SLGetAsVector(slist), 0, last'.v)]_vars
  /\ [][(last'.op = "SinglyLinkedList::InsertAtEnd") =>
          SLGetAsVector(slist') =
            SeqInsert(SLGetAsVector(slist), SLSize(slist), last'.v)]_vars

C24_Witness ==
  /\ last.op = "SinglyLinkedList::InsertAtPosition" /\ last.err = "none"
  /\ last.idx = 1 /\ last.v = 2 /\ SLGetAsVector(slist) = <<1, 2, 1>>

\* C25: DeleteAtBeggining, DeleteAtEnd and DeleteAtPosition report EmptyError
\* on an empty SinglyLinkedList, DeleteAtPosition(pos) reports
\* IndexOutOfRange when pos >= size on a non-empty list, a failing call
\* changes nothing, and a successful call removes exactly the first, last or
\* pos-th element, keeps the others in order, releases one node and makes
\* Size() one less.
C25_SinglyDelete ==
  [][(last'.op \in {"SinglyLinkedList::DeleteAtBeggining",
                    "SinglyLinkedList::DeleteAtEnd",
                    "SinglyLinkedList::DeleteAtPosition"}) =>
       LET n == SLSize(slist)
           k == IF last'.op = "SinglyLinkedList::DeleteAtBeggining" THEN 0
                ELSE IF last'.op = "SinglyLinkedList::DeleteAtEnd" THEN n - 1
                ELSE last'.idx
       IN  IF n = 0
             THEN last'.err \in EmptyError /\ slist' = slist
           ELSE IF k >= n
             THEN last'.err = "IndexOutOfRange" /\ slist' = slist
           ELSE /\ last'.err = "none"
                /\ SLGetAsVector(slist') = SeqRemove(SLGetAsVector(slist), k)
                /\ SLSize(slist') = n - 1
                /\ ChainLive(slist'.heap, slist'.head_)
                /\ Cardinality(Free(slist'.heap)) =
                     Cardinality(Free(slist.heap)) + 1]_vars

C25_Witness ==
  /\ last.op = "SinglyLinkedList::DeleteAtPosition" /\ last.err = "none"
  /\ last.idx = 1 /\ SLGetAsVector(slist) = <<1, 2>>
  /\ Cardinality(Free(slist.heap)) = MaxListNodes - 2

\* C22: after any sequence of insertions and deletions on a
\* DoublyLinkedList, deletions at a middle position included, every node n
\* with n.next != null has n.next.previous == n, head.previous is null and
\* tail.next is null.
C22_LinkInvariant ==
  (dlist # None.dlist /\ last.op # "DoublyLinkedList::~DoublyLinkedList") =>
    LET h == dlist.heap
    IN  /\ \A n \in Live(h) :
             h[n].next # Null => h[h[n].next].previous = n
        /\ dlist.head_ # Null => h[dlist.head_].previous = Null
        /\ dlist.tail_ # Null => h[dlist.tail_].next = Null

\* C23: after any sequence of successful insertions and deletions on a
\* DoublyLinkedList, GetAsVector() and Size() equal the result of applying
\* the same positional insertions and removals to an abstract sequence;
\* DeleteAtEnd removes exactly the last element, also after a deletion of a
\* middle node.
C23_RefinesSequence ==
  (dlist # None.dlist /\ last.op # "DoublyLinkedList::~DoublyLinkedList"
     /\ ~shadow.lost) =>
    /\ ChainLive(dlist.heap, dlist.head_)
    /\ DLGetAsVector(dlist) = shadow.vals
    /\ DLSize(dlist) = Len(shadow.vals)

\* C29: after any sequence of insertions and deletions on a
\* DoublyLinkedList every node reachable from head_ through next or from
\* tail_ through previous is live and no live node is unreachable from
\* head_; the destructor releases every allocated node exactly once.
C29_NodeLifetime ==
  dlist # None.dlist =>
    LET h == dlist.heap
        \* the nodes met by following previous from p, at most fuel of them
        RECURSIVE PrevChain(_, _)
        PrevChain(p, fuel) ==
          IF p = Null \/ fuel = 0 THEN {}
          ELSE {p} \cup PrevChain(h[p].previous, fuel - 1)
    IN  IF last.op # "DoublyLinkedList::~DoublyLinkedList"
          THEN /\ DLChain(dlist) \subseteq Live(h)
               /\ PrevChain(dlist.tail_, Len(h) + 1) \subseteq Live(h)
               /\ Live(h) \subseteq DLChain(dlist)
          ELSE Live(h) = {} /\ ~fx.oob

\* C26: on a DoublyLinkedList, InsertAtPosition(pos, v) reports
\* IndexOutOfRange exactly when pos > Size(); DeleteAtBeginning, DeleteAtEnd
\* and DeleteAtPosition on an empty list report the empty-list error;
\* DeleteAtPosition(pos) on a non-empty list reports IndexOutOfRange exactly
\* when pos >= Size(); a failing call allocates and releases no node and
\* leaves head, tail and every link as they were.
C26_DoublyPositionalErrors ==
  [][LET DLDeletes == {"DoublyLinkedList::DeleteAtBeginning",
                       "DoublyLinkedList::DeleteAtEnd",
                       "DoublyLinkedList::DeleteAtPosition"}
         n == DLSize(dlist)
     IN  (ChainLive(dlist.heap, dlist.head_)
            /\ last'.op \in
                 DLDeletes \cup {"DoublyLinkedList::InsertAtPosition"})
         =>
           (/\ last'.op = "DoublyLinkedList::InsertAtPosition" =>
                 (last'.err = "IndexOutOfRange" <=> last'.idx > n)
            /\ (last'.op \in DLDeletes /\ n = 0) => last'.err \in EmptyError
            /\ (last'.op = "DoublyLinkedList::DeleteAtPosition" /\ n > 0) =>
                 (last'.err = "IndexOutOfRange" <=> last'.idx >= n)
            /\ (last'.op \in DLDeletes /\ n > 0) =>
                 last'.err \notin EmptyError
            /\ last'.err \in EmptyError \cup {"IndexOutOfRange"} =>
                 dlist' = dlist /\ ~fx'.oob)]_vars

C26_Witness ==
  /\ last.op = "DoublyLinkedList::InsertAtPosition"
  /\ last.err = "IndexOutOfRange"
  /\ ChainLive(dlist.heap, dlist.head_)
  /\ DLSize(dlist) = 2
  /\ last.idx = 3
  /\ Cardinality(Live(dlist.heap)) = 2

\* C27: on a SinglyLinkedList and on a DoublyLinkedList, Find(v) returns the
\* smallest 0-based index whose element equals v, reports ItemNotFound when
\* no element equals v (also on an empty list), and never changes the list.
C27_ListFind ==
  [][LET \* what Find(v) has to give on a list holding the sequence q
         FindResult(q, v, ret, err) ==
           LET hits == {k \in 1 .. Len(q) : q[k] = v}
           IN  IF hits = {} THEN err = "ItemNotFound"
               ELSE /\ err = "none"
                    /\ ret + 1 \in hits
                    /\ \A k \in hits : ret + 1 <= k
     IN  /\ last'.op = "SinglyLinkedList::Find" =>
              /\ FindResult(SLGetAsVector(slist), last'.v, last'.ret,
                            last'.err)
              /\ slist' = slist
         /\ (last'.op = "DoublyLinkedList::Find"
              /\ ChainLive(dlist.heap, dlist.head_)) =>
              /\ FindResult(DLGetAsVector(dlist), last'.v, last'.ret,
                            last'.err)
              /\ dlist' = dlist]_vars

C27_Witness ==
  /\ last.op = "DoublyLinkedList::Find" /\ last.v = 2
  /\ last.err = "none" /\ last.ret = 1
  /\ ChainLive(dlist.heap, dlist.head_)
  /\ DLGetAsVector(dlist) = <<1, 2, 2>>

\* C28: in every sequence of Enqueue and Dequeue calls on an SLLQueue
\* followed by its destruction, no operation (Dequeue, Enqueue, PeekFront,
\* PeekRear, the destructor) reads, writes or releases a node that was
\* already released, and after the destructor every allocated node has been
\* released.
C28_QueueNodeLifetime ==
  sll # None.sll =>
    /\ ~fx.oob
    /\ last.op = "SLLQueue::~SLLQueue" =>
         /\ last.err = "none"
         /\ \A p \in Nodes : ~sll.heap[p].live

\* C30: in every state an ArrayStack of capacity N reaches by Push, Pop and
\* Top calls, successful or failing, -1 <= topIndex <= N - 1,
\* Size() = topIndex + 1 <= N, IsFull() holds exactly when Size() = N and
\* IsEmpty() holds exactly when Size() = 0.
C30_StackStateInvariant ==
  stack # None.stack =>
    /\ -1 <= stack.topIndex
    /\ stack.topIndex <= stack.capacity - 1
    /\ StackSize(stack) = stack.topIndex + 1
    /\ StackSize(stack) <= stack.capacity
    /\ StackIsFull(stack) <=> StackSize(stack) = stack.capacity
    /\ StackIsEmpty(stack) <=> StackSize(stack) = 0

\* C31: a loop from Begin() that increments while the iterator differs from
\* End() keeps the iterator's position within [data, data + size] for every
\* size n >= 0, and on an empty vector Begin() = End(), so that the loop ends
\* at once and visits no element.
C31_ForwardStaysInRange ==
  (it.kind = "fwd" /\ it.st \in {"running", "done"} /\ size <= capacity) =>
    /\ 0 <= it.pos /\ it.pos <= size
    /\ \A k \in 1 .. Len(it.visited) : it.visited[k] \in 0 .. (size - 1)
    /\ size = 0 => BeginPos("fwd", size) = EndPos("fwd", size)

\* C32: Pop() called with Size() = 0 does not make the size wrap below zero:
\* afterwards the size is still within the capacity and At(i) reports
\* IndexOutOfRange for every index i.
C32_PopOnEmptySafe ==
  [][(last'.op = "Pop" /\ size = 0) =>
       /\ size' # SIZE_MAX
       /\ size' <= capacity'
       /\ \A i \in Indexes : AtThrows(i, size')]_vars

\* C33: every Push and every Insert that is carried out with size = capacity,
\* and every Resize and ShrinkToFit, puts the vector in a fresh buffer (the
\* buffer's identity changes, so that pointers and iterators into the old one
\* are invalid) that holds the elements which stay live.
C33_ReallocationMoves ==
  [][(\/ /\ last'.op \in {"Push", "Insert"} /\ last'.err = "none"
         /\ size = capacity
      \/ last'.op \in {"Resize", "ShrinkToFit"}) =>
       /\ fx'.moved
       /\ it' = NoIter
       /\ Holds =>
            \A i \in 0 .. (size - 1) :
              (/\ i < size'
               /\ last'.op = "Insert" => i < last'.idx) =>
                Read(data', capacity', i) = data[i]]_vars

C33_Witness ==
  /\ last.op = "Insert" /\ last.err = "none" /\ last.idx = 0 /\ fx.moved
  /\ size = 2 /\ capacity = 2 /\ Holds

\* C34: a Push or Insert made with size < capacity leaves Capacity() and the
\* buffer's identity as they were (no reallocation takes place).
C34_NoReallocationWithRoom ==
  [][(last'.op \in {"Push", "Insert"} /\ size < capacity) =>
       /\ capacity' = capacity
       /\ ~fx'.moved
       /\ DOMAIN data' = DOMAIN data]_vars

C34_Witness ==
  /\ last.op = "Push" /\ ~fx.moved
  /\ size = 2 /\ capacity = 3 /\ Holds

\* C35: after v = L the size is |L| and At(i) returns L[i] for every i < |L|,
\* the capacity is max(old capacity, |L|), the buffer is replaced only when L
\* did not fit in the old capacity, and At(i) is out of range for every
\* i >= |L|, so that no earlier element remains live.
C35_AssignList ==
  [][last'.op = "Assign" =>
       LET l == last'.v
       IN  /\ size' = Len(l)
           /\ \A i \in 0 .. (Len(l) - 1) :
                ~AtThrows(i, size') /\ Read(data', capacity', i) = l[i + 1]
           /\ \A i \in Indexes : i >= Len(l) => AtThrows(i, size')
           /\ capacity' = (IF Len(l) > capacity THEN Len(l) ELSE capacity)
           /\ fx'.moved <=> Len(l) > capacity
           /\ ~fx'.moved => DOMAIN data' = DOMAIN data
           /\ ~fx'.oob]_vars

C35_Witness ==
  /\ last.op = "Assign" /\ last.v = <<1, 2>> /\ ~fx.moved
  /\ size = 2 /\ capacity = 3 /\ data[2] \in Val

\* C36: on a CircularQueue of capacity N, 0 <= front <= N - 1 and
\* 0 <= count <= N in every state; on a non-empty queue PeekFront returns the
\* value in slot front, which the next Dequeue returns, and PeekRear returns
\* the value enqueued last, in slot (front + count - 1) mod N, also when the
\* contents wrap around the end of the array; neither changes front, the count
\* or an element.
C36_CircularPeeks ==
  /\ [](cqueue # None.cqueue =>
          /\ 0 <= cqueue.front /\ cqueue.front <= cqueue.capacity - 1
          /\ 0 <= cqueue.size /\ cqueue.size <= cqueue.capacity)
  /\ [][(last'.op = "CircularQueue::PeekFront" /\ cqueue.size > 0) =>
          /\ last'.err = "none"
          /\ last'.ret = cqueue.queue[cqueue.front]
          /\ last'.ret = Head(shadow.vals)]_vars
  /\ [][(last'.op = "CircularQueue::PeekRear" /\ cqueue.size > 0) =>
          /\ last'.err = "none"
          /\ last'.ret = cqueue.queue[(cqueue.front + cqueue.size - 1)
                                        % cqueue.capacity]
          /\ last'.ret = shadow.vals[Len(shadow.vals)]]_vars
  /\ [][(last'.op \in {"CircularQueue::PeekFront", "CircularQueue::PeekRear"})
          => (cqueue' = cqueue /\ shadow' = shadow)]_vars
  /\ [][(last'.op = "CircularQueue::Dequeue" /\ last'.err = "none"
           /\ last.op = "CircularQueue::PeekFront" /\ last.err = "none") =>
          last'.ret = last.ret]_vars

C36_Witness ==
  /\ last.op = "CircularQueue::PeekRear" /\ last.err = "none"
  /\ cqueue.capacity = 3 /\ cqueue.front = 2 /\ cqueue.size = 2
  /\ last.ret = cqueue.queue[0] /\ cqueue.queue[0] # cqueue.queue[2]

\* C37: in every state in which an SLLQueue is not empty, the chain of next
\* pointers from front is acyclic, its last node is rear and rear's next is
\* null; in particular the node enqueued on an empty queue, which is both
\* front and rear, has next null and is not linked to itself.
C37_QueueChain ==
  (sll # None.sll /\ ~SLLIsEmpty(sll)
     /\ last.op # "SLLQueue::~SLLQueue") =>
    LET c == Chain(sll.heap, sll.front, MaxNodes + 1)
    IN  /\ Len(c) <= MaxNodes
        /\ \A i \in 1 .. Len(c) : sll.heap[c[i]].live
        /\ c[Len(c)] = sll.rear
        /\ sll.heap[sll.rear].next = Null
        /\ sll.heap[sll.rear].next # sll.rear

\* C38: in every state of a DoublyLinkedList head_ is null exactly when tail_
\* is null, and on a non-empty list tail_ is the last node of the chain of
\* next pointers from head_ and head_ is the last node of the chain of
\* previous pointers from tail_.
C38_HeadTailConsistent ==
  (dlist # None.dlist /\ last.op # "DoublyLinkedList::~DoublyLinkedList") =>
    LET h == dlist.heap
        fwd == Chain(h, dlist.head_, Len(h) + 1)
        \* the node at which following previous from p stops
        RECURSIVE PrevEnd(_, _)
        PrevEnd(p, fuel) ==
          IF h[p].previous = Null \/ fuel = 0 THEN p
          ELSE PrevEnd(h[p].previous, fuel - 1)
    IN  /\ dlist.head_ = Null <=> dlist.tail_ = Null
        /\ (dlist.head_ # Null /\ dlist.tail_ # Null) =>
             /\ Len(fwd) <= Len(h)
             /\ fwd[Len(fwd)] = dlist.tail_
             /\ PrevEnd(dlist.tail_, Len(h)) = dlist.head_
             /\ h[dlist.head_].previous = Null

====
